---- MODULE Spec2Model ----
(***************************************************************************)
(* facescraper: main.py runs SecurityParser.run (parsers.py) over three    *)
(* exported HTML documents and hands the four packets to CSVWriter.dump    *)
(* (writers.py), which writes one CSV file per packet.                     *)
(*                                                                         *)
(* A text is a sequence of characters; a character is a one-element        *)
(* string, and a longer string such as "Browser" stands for that run of    *)
(* ordinary ASCII letters.  Values follow Python 2, the dialect the source *)
(* is written in: getText() and str.encode() both yield text, an index is  *)
(* an integer.                                                             *)
(***************************************************************************)
EXTENDS Integers, Sequences, FiniteSets, TLC

VARIABLES
    pc,         \* position of the run: see the actions
    i,          \* 1..4: the subsection routine / packet being processed
    arg,        \* the section argument given to BaseParser.__init__
    section,    \* self.section of the parser, NoSection before it is set
    docs,       \* the input files: filename -> document, or NoFile
    open_docs,  \* filenames of the input documents currently open
    rows,       \* the list the current routine has built (address_list, ...)
    data,       \* the packets built by run so far, in order
    returned,   \* TRUE once run has returned data to main
    dirs,       \* output directories on disk
    files,      \* output files on disk: filename -> content (text)
    disk0,      \* dirs and files as they were when the run started
    open_out,   \* filenames of the output files currently open
    err         \* the exception in flight or that ended the run, or NoError

vars == <<pc, i, arg, section, docs, open_docs, rows, data, returned,
          dirs, files, disk0, open_out, err>>

----------------------------------------------------------------------------
(* Bounds of the model *)

\* longest text of a list item
MaxLen == 1
\* most <li> items in a list
MaxItems == 2
\* most <p> records in the recognized-machines list
MaxRecords == 1
\* most strings (lines between <br>s) in one <p> record
MaxLines == 2
\* longest section argument tried on BaseParser.__init__
MaxSection == 4

SeqsUpTo(S, n) == UNION {[1..k -> S] : k \in 0..n}

----------------------------------------------------------------------------
(* Characters and texts *)

NonAscii == {"U+00E9"}
LF == "\n"
CR == "\r"
COLON == ":"
COMMA == ","
QUOTE == "\""

NoError == "none"
NoSection == <<"<unset>">>
NoFile == [exists |-> FALSE, uls |-> <<>>]

\* str.encode('ascii', 'ignore'): the characters outside ASCII are dropped
IsAscii(c) == c \notin NonAscii
encode_ascii_ignore(text) == SelectSeq(text, IsAscii)

\* needle in hay, for two Python strings: the substring test
Contains(hay, needle) ==
    \E s \in 0..(Len(hay) - Len(needle)) :
        SubSeq(hay, s + 1, s + Len(needle)) = needle

\* str(n) for an integer n >= 0
Digits == <<"0", "1", "2", "3", "4", "5", "6", "7", "8", "9">>
RECURSIVE str_int(_)
str_int(n) ==
    IF n < 10 THEN <<Digits[n + 1]>>
    ELSE str_int(n \div 10) \o <<Digits[(n % 10) + 1]>>

IntVal(n) == [int |-> n]
StrVal(s) == [str |-> s]
IsInt(v) == DOMAIN v = {"int"}

----------------------------------------------------------------------------
(* parsers.py: BaseParser *)

BASE_DIR == "facebook_data"
HTML_DIR == "html"
SECURITY_SECTION == <<"s", "e", "c", "u", "r", "i", "t", "y">>
\* (SECURITY_SECTION) is the string itself, not a one-element tuple
SECTION_NAMES == SECURITY_SECTION

\* the exception _validate_inputs raises for section, or NoError
_validate_inputs(sec) ==
    IF ~Contains(SECTION_NAMES, sec) THEN "ValueError" ELSE NoError

----------------------------------------------------------------------------
(* parsers.py: SecurityParser *)

FIELD_NAME_INDEX ==
    [ip_addresses |-> 6, recognized_machines |-> 3,
     allowed_apps |-> 1, advertisers |-> 3]

SECURITY_FILE == "security.htm"
Path(base, sub, name) == base \o "/" \o sub \o "/" \o name

\* self.filename, built in SecurityParser.__init__
filename == Path(BASE_DIR, HTML_DIR, SECURITY_FILE)
app_filename == Path(BASE_DIR, HTML_DIR, "apps.htm")
ads_filename == Path(BASE_DIR, HTML_DIR, "ads.htm")

\* the four subsection routines in the order run calls them
Subsections ==
    <<"ip_addresses", "recognized_machines", "allowed_apps", "advertisers">>

\* the file each routine opens
RoutineFile(n) ==
    CASE n = 1 -> filename
      [] n = 2 -> filename
      [] n = 3 -> app_filename
      [] n = 4 -> ads_filename

\* the fieldnames run puts in each packet
Fieldnames(n) ==
    CASE n = 1 -> << <<"Index">>, <<"IP Address">> >>
      [] n = 2 -> << <<"IP Address">>, <<"Updated">>, <<"Browser">>,
                     <<"Created">>, <<"Cookie">> >>
      [] n = 3 -> << <<"Index">>, <<"App Name">> >>
      [] n = 4 -> << <<"Index">>, <<"Name">> >>

Range(f) == {f[x] : x \in DOMAIN f}

\* one row of a flat enumeration: {'Index': idx, <column>: <text>}
FlatRow(idx, column, text) ==
    (<<"Index">> :> IntVal(idx)) @@ (column :> StrVal(text))

\* mutant of ip_address_list: the index counted from 1, as by
\* enumerate(..., 1)
ip_address_list_from1(ul) ==
    [j \in 1..Len(ul.li) |-> FlatRow(j, <<"IP Address">>, ul.li[j])]

\* the for loop of _parse_ip_addresses over ul.find_all('li')
ip_address_list(ul) ==
    [j \in 1..Len(ul.li) |-> FlatRow(j - 1, <<"IP Address">>, ul.li[j])]

\* the for loop of _parse_allowed_applications
app_list(ul) ==
    [j \in 1..Len(ul.li) |->
        FlatRow(j - 1, <<"App Name">>, encode_ascii_ignore(ul.li[j]))]

\* the for loop of _parse_advertisers
advertiser_list(ul) ==
    [j \in 1..Len(ul.li) |->
        FlatRow(j - 1, <<"Name">>, encode_ascii_ignore(ul.li[j]))]

\* position of the first colon of field, 0 when there is none
FirstColon(field) ==
    IF \E p \in 1..Len(field) : field[p] = COLON
    THEN CHOOSE p \in 1..Len(field) :
            /\ field[p] = COLON
            /\ \A q \in 1..(p - 1) : field[q] # COLON
    ELSE 0

\* field.split(':', 1) unpacks into two names only when field has a colon
SplitFails(field) == FirstColon(field) = 0
SplitName(field) == SubSeq(field, 1, FirstColon(field) - 1)
SplitContent(field) == SubSeq(field, FirstColon(field) + 1, Len(field))

\* record_map after the inner loop has run over the first n strings
RECURSIVE record_map(_, _)
record_map(strings, n) ==
    IF n = 0 THEN <<>>
    ELSE (SplitName(strings[n]) :> StrVal(SplitContent(strings[n])))
            @@ record_map(strings, n - 1)

\* what the inner loop appends for one <p>: machine_list.append(record_map)
\* runs once per string, and every appended entry is the same dict object,
\* so each entry shows the map as it is after the last string
RecordAppends(strings) ==
    [j \in 1..Len(strings) |-> record_map(strings, Len(strings))]

RECURSIVE machine_list(_, _)
machine_list(ps, n) ==
    IF n = 0 THEN <<>>
    ELSE machine_list(ps, n - 1) \o RecordAppends(ps[n])

\* mutant of MachineSplitFails: a string without a colon is taken whole
\* (as by str.partition), no exception is raised
MachineSplitTolerant(ul) == FALSE

\* some string of some <p> makes the unpacking raise ValueError
MachineSplitFails(ul) ==
    \E r \in 1..Len(ul.p) : \E j \in 1..Len(ul.p[r]) : SplitFails(ul.p[r][j])

\* the body of a routine's with block on an open document:
\* [err |-> the exception raised or NoError, rows |-> the list built]
RoutineBody(n, doc) ==
    LET index == FIELD_NAME_INDEX[Subsections[n]] IN
    IF Len(doc.uls) <= index
    THEN [err |-> "IndexError", rows |-> <<>>]
    ELSE LET ul == doc.uls[index + 1] IN
         CASE n = 1 -> [err |-> NoError, rows |-> ip_address_list(ul)]
           [] n = 2 ->
                IF MachineSplitFails(ul)
                THEN [err |-> "ValueError", rows |-> <<>>]
                ELSE [err |-> NoError, rows |-> machine_list(ul.p, Len(ul.p))]
           [] n = 3 -> [err |-> NoError, rows |-> app_list(ul)]
           [] n = 4 -> [err |-> NoError, rows |-> advertiser_list(ul)]

\* the packet run builds for subsection n
Packet(n, sec, list) ==
    [section |-> sec, subsection |-> Subsections[n],
     data |-> list, fieldnames |-> Fieldnames(n)]

----------------------------------------------------------------------------
(* writers.py: CSVWriter, and csv.DictWriter as _dump_to_csv uses it *)

CSV == <<"c", "s", "v">>
\* (CSV) is the string itself, not a one-element tuple
OUTPUT_TYPES == CSV
BASE_OUTPUT_DIR == "data"

\* the exception BaseWriter._validate_inputs raises, or NoError
writer_validate_inputs(output_type) ==
    IF ~Contains(OUTPUT_TYPES, output_type) THEN "ValueError" ELSE NoError

\* '{dirname}/{section}': a path is the sequence of its segments
dirname(output_dir, sec) == <<output_dir, sec>>
\* '{dirname}/{name}.{ext}'
out_filename(output_dir, sec, name, ext) == <<output_dir, sec, name, ext>>
\* os.makedirs creates the directory and the missing ones above it
makedirs(path) == {SubSeq(path, 1, n) : n \in 1..Len(path)}

\* str(value), as the csv writer renders a value
ValueText(v) == IF IsInt(v) THEN str_int(v.int) ELSE v.str

\* QUOTE_MINIMAL: a field is quoted when it holds the delimiter, the quote
\* character or a character of the line terminator
NeedsQuote(text) ==
    \E p \in 1..Len(text) : text[p] \in {COMMA, QUOTE, CR, LF}

\* mutant of DoubleQuotes: a quote character inside a field is not doubled
DoubleQuotes_single(text) == text

RECURSIVE DoubleQuotes(_)
DoubleQuotes(text) ==
    IF text = <<>> THEN <<>>
    ELSE (IF Head(text) = QUOTE THEN <<QUOTE, QUOTE>> ELSE <<Head(text)>>)
            \o DoubleQuotes(Tail(text))

\* mutant of csv_field: no field is ever quoted (QUOTE_NONE)
csv_field_unquoted(text, alone) == text

\* one field as written; a row of one empty field is written as ""
csv_field(text, alone) ==
    IF NeedsQuote(text) \/ (alone /\ text = <<>>)
    THEN <<QUOTE>> \o DoubleQuotes(text) \o <<QUOTE>>
    ELSE text

RECURSIVE JoinFields(_, _)
JoinFields(fields, n) ==
    IF n = 0 THEN <<>>
    ELSE IF n = 1 THEN csv_field(fields[1], Len(fields) = 1)
    ELSE JoinFields(fields, n - 1) \o <<COMMA>> \o csv_field(fields[n], FALSE)

\* writer.writerow(fields): the fields joined by commas, then '\r\n'
csv_line(fields) == JoinFields(fields, Len(fields)) \o <<CR, LF>>

\* DictWriter._dict_to_list: extrasaction is 'raise', restval is ''
wrong_fields(row, fieldnames) == DOMAIN row \ Range(fieldnames)
_dict_to_list(row, fieldnames) ==
    [j \in 1..Len(fieldnames) |->
        IF fieldnames[j] \in DOMAIN row
        THEN ValueText(row[fieldnames[j]]) ELSE <<>>]

\* how many rows the for loop writes before writerow raises ValueError
RowsWritten(rows_, fieldnames) ==
    IF \E j \in 1..Len(rows_) : wrong_fields(rows_[j], fieldnames) # {}
    THEN (CHOOSE j \in 1..Len(rows_) :
            /\ wrong_fields(rows_[j], fieldnames) # {}
            /\ \A q \in 1..(j - 1) : wrong_fields(rows_[q], fieldnames) = {})
         - 1
    ELSE Len(rows_)

RECURSIVE RowLines(_, _, _)
RowLines(rows_, fieldnames, n) ==
    IF n = 0 THEN <<>>
    ELSE RowLines(rows_, fieldnames, n - 1)
            \o csv_line(_dict_to_list(rows_[n], fieldnames))

\* writeheader, then the for loop over data: the text the with block of
\* _dump_to_csv leaves in the file, and the exception it ends with
DumpBody(packet) ==
    LET n == RowsWritten(packet.data, packet.fieldnames) IN
    [text |-> csv_line(packet.fieldnames)
                \o RowLines(packet.data, packet.fieldnames, n),
     err |-> IF n < Len(packet.data) THEN "ValueError" ELSE NoError]

----------------------------------------------------------------------------
(* The input documents and the output directory a run can start from *)

\* a <ul> element: the texts of its <li>s and the strings of each of its <p>s
UL(li, p) == [li |-> li, p |-> p]
\* a document with n <ul> elements, those at the given 0-based positions set
Doc(n, at) ==
    [exists |-> TRUE,
     uls |-> [k \in 1..n |->
                IF (k - 1) \in DOMAIN at THEN at[k - 1] ELSE UL(<<>>, <<>>)]]

IpTexts == SeqsUpTo({"1", COMMA, QUOTE, LF}, MaxLen)
NameTexts == SeqsUpTo({"a", COMMA} \cup NonAscii, MaxLen)
MachineStrings ==
    {k \o <<COLON>> \o v :
        k \in {<<"Browser">>, <<"Foo">>},
        v \in {<<" ", "a">>, <<"1", COLON, "2">>}}
    \cup {<<"garbage">>}

MachineRecords == SeqsUpTo(MachineStrings, MaxLines)

DefaultIps == << <<"1">> >>
DefaultMachines == << << <<"Browser", COLON, "a">> >> >>
DefaultNames == << <<"a">> >>

SecurityDoc(ips, machines) ==
    Doc(FIELD_NAME_INDEX.ip_addresses + 1,
        (FIELD_NAME_INDEX.ip_addresses :> UL(ips, <<>>))
        @@ (FIELD_NAME_INDEX.recognized_machines :> UL(<<>>, machines)))
AppsDoc(names) ==
    Doc(FIELD_NAME_INDEX.allowed_apps + 1,
        FIELD_NAME_INDEX.allowed_apps :> UL(names, <<>>))
AdsDoc(names) ==
    Doc(FIELD_NAME_INDEX.advertisers + 1,
        FIELD_NAME_INDEX.advertisers :> UL(names, <<>>))

Files(sec, apps, ads) ==
    (filename :> sec) @@ (app_filename :> apps) @@ (ads_filename :> ads)

\* every list of one subsection, the other subsections holding one entry
DataInput(d) ==
    \/ \E k \in 0..MaxItems : \E l \in [1..k -> IpTexts] :
        d = Files(SecurityDoc(l, DefaultMachines), AppsDoc(DefaultNames),
                  AdsDoc(DefaultNames))
    \/ \E k \in 0..MaxRecords : \E m \in [1..k -> MachineRecords] :
        d = Files(SecurityDoc(DefaultIps, m), AppsDoc(DefaultNames),
                  AdsDoc(DefaultNames))
    \/ \E k \in 0..MaxItems : \E l \in [1..k -> NameTexts] :
        d = Files(SecurityDoc(DefaultIps, DefaultMachines), AppsDoc(l),
                  AdsDoc(DefaultNames))
    \/ \E k \in 0..MaxItems : \E l \in [1..k -> NameTexts] :
        d = Files(SecurityDoc(DefaultIps, DefaultMachines),
                  AppsDoc(DefaultNames), AdsDoc(l))

\* a file that is missing, or holds too few <ul> elements for its routine
BrokenInputs ==
    {Files(s, a, d) :
        s \in {NoFile, Doc(0, <<>>),
               Doc(FIELD_NAME_INDEX.recognized_machines + 1, <<>>),
               SecurityDoc(DefaultIps, DefaultMachines)},
        a \in {NoFile, Doc(FIELD_NAME_INDEX.allowed_apps, <<>>),
               AppsDoc(DefaultNames)},
        d \in {NoFile, Doc(FIELD_NAME_INDEX.advertisers, <<>>),
               AdsDoc(DefaultNames)}}

\* the CSV files of an earlier run: the directory and a file to overwrite
StaleDisk ==
    [dirs |-> makedirs(dirname(BASE_OUTPUT_DIR, SECURITY_SECTION)),
     files |-> out_filename(BASE_OUTPUT_DIR, SECURITY_SECTION,
                            Subsections[1], CSV) :> <<"stale">>]
EmptyDisk == [dirs |-> {}, files |-> <<>>]

----------------------------------------------------------------------------
(* main.py *)

Init ==
    /\ pc = "main"
    /\ i = 1
    /\ arg = SECURITY_SECTION
    /\ section = NoSection
    /\ \/ DataInput(docs) /\ disk0 = EmptyDisk
       \/ docs \in BrokenInputs /\ disk0 \in {EmptyDisk, StaleDisk}
    /\ open_docs = {}
    /\ rows = <<>>
    /\ data = <<>>
    /\ returned = FALSE
    /\ dirs = disk0.dirs
    /\ files = disk0.files
    /\ open_out = {}
    /\ err = NoError

\* mutant of NewParser: the constructor prepares the output directory
NewParser_mkdir ==
    /\ pc = "main"
    /\ section' = arg
    /\ pc' = "open"
    /\ dirs' = dirs \cup makedirs(dirname(BASE_OUTPUT_DIR, arg))
    /\ UNCHANGED <<i, arg, docs, open_docs, rows, data, returned,
                   files, disk0, open_out, err>>

\* parser = SecurityParser(): BaseParser.__init__ validates the section and
\* stores it; data = parser.run() then starts with _parse_ip_addresses
NewParser ==
    /\ pc = "main"
    /\ IF _validate_inputs(arg) # NoError
       THEN /\ err' = _validate_inputs(arg)
            /\ pc' = "failed"
            /\ UNCHANGED section
       ELSE /\ section' = arg
            /\ pc' = "open"
            /\ UNCHANGED err
    /\ UNCHANGED <<i, arg, docs, open_docs, rows, data, returned,
                   dirs, files, disk0, open_out>>

\* with open(...) as html_file: IOError when the file is missing
OpenDoc ==
    /\ pc = "open"
    /\ IF docs[RoutineFile(i)].exists
       THEN /\ open_docs' = open_docs \cup {RoutineFile(i)}
            /\ rows' = <<>>
            /\ pc' = "body"
            /\ UNCHANGED err
       ELSE /\ err' = "IOError"
            /\ pc' = "failed"
            /\ UNCHANGED <<open_docs, rows>>
    /\ UNCHANGED <<i, arg, section, docs, data, returned,
                   dirs, files, disk0, open_out>>

\* the body of the with block: the positional lookup and the for loop
ReadDoc ==
    /\ pc = "body"
    /\ LET r == RoutineBody(i, docs[RoutineFile(i)]) IN
        /\ rows' = r.rows
        /\ err' = r.err
    /\ pc' = "close"
    /\ UNCHANGED <<i, arg, section, docs, open_docs, data, returned,
                   dirs, files, disk0, open_out>>

\* mutant of CloseDoc: the file is closed by a close() call at the end of
\* the routine, which an exception skips
CloseDoc_leak ==
    /\ pc = "close"
    /\ IF err # NoError
       THEN /\ pc' = "failed"
            /\ UNCHANGED <<i, data, returned, open_docs>>
       ELSE /\ open_docs' = open_docs \ {RoutineFile(i)}
            /\ data' = Append(data, Packet(i, section, rows))
            /\ IF i < Len(Subsections)
               THEN /\ i' = i + 1
                    /\ pc' = "open"
                    /\ UNCHANGED returned
               ELSE /\ i' = 1
                    /\ pc' = "writer"
                    /\ returned' = TRUE
    /\ UNCHANGED <<arg, section, docs, rows, dirs, files, disk0, open_out,
                   err>>

\* leaving the with block closes the file, on return and on an exception;
\* run then builds the packet and calls the next routine, or returns data
CloseDoc ==
    /\ pc = "close"
    /\ open_docs' = open_docs \ {RoutineFile(i)}
    /\ IF err # NoError
       THEN /\ pc' = "failed"
            /\ UNCHANGED <<i, data, returned>>
       ELSE /\ data' = Append(data, Packet(i, section, rows))
            /\ IF i < Len(Subsections)
               THEN /\ i' = i + 1
                    /\ pc' = "open"
                    /\ UNCHANGED returned
               ELSE /\ i' = 1
                    /\ pc' = "writer"
                    /\ returned' = TRUE
    /\ UNCHANGED <<arg, section, docs, rows, dirs, files, disk0, open_out,
                   err>>

\* writer = CSVWriter(); writer.dump(data) starts with the first packet
NewWriter ==
    /\ pc = "writer"
    /\ IF writer_validate_inputs(CSV) # NoError
       THEN /\ err' = writer_validate_inputs(CSV)
            /\ pc' = "failed"
       ELSE /\ pc' = "mkdir"
            /\ UNCHANGED err
    /\ UNCHANGED <<i, arg, section, docs, open_docs, rows, data, returned,
                   dirs, files, disk0, open_out>>

\* _dump_to_csv: os.makedirs(dirname) unless the directory exists; the
\* call fails with OSError when the directory cannot be created
EnsureDir ==
    /\ pc = "mkdir"
    /\ LET d == dirname(BASE_OUTPUT_DIR, data[i].section) IN
        IF d \in dirs
        THEN /\ pc' = "open_out"
             /\ UNCHANGED <<dirs, err>>
        ELSE \/ /\ dirs' = dirs \cup makedirs(d)
                /\ pc' = "open_out"
                /\ UNCHANGED err
             \/ /\ err' = "OSError"
                /\ pc' = "failed"
                /\ UNCHANGED dirs
    /\ UNCHANGED <<i, arg, section, docs, open_docs, rows, data, returned,
                   files, disk0, open_out>>

\* with open(filename, 'w') as csv_file: creates or truncates the file;
\* IOError when it cannot be opened for writing
OpenOut ==
    /\ pc = "open_out"
    /\ LET f == out_filename(BASE_OUTPUT_DIR, data[i].section,
                             data[i].subsection, CSV) IN
        \/ /\ files' = (f :> <<>>) @@ files
           /\ open_out' = open_out \cup {f}
           /\ pc' = "write"
           /\ UNCHANGED err
        \/ /\ err' = "IOError"
           /\ pc' = "failed"
           /\ UNCHANGED <<files, open_out>>
    /\ UNCHANGED <<i, arg, section, docs, open_docs, rows, data, returned,
                   dirs, disk0>>

\* the body of the with block: writeheader and the for loop of writerows
WriteRows ==
    /\ pc = "write"
    /\ LET f == out_filename(BASE_OUTPUT_DIR, data[i].section,
                             data[i].subsection, CSV)
           b == DumpBody(data[i]) IN
        /\ files' = (f :> b.text) @@ files
        /\ err' = b.err
    /\ pc' = "close_out"
    /\ UNCHANGED <<i, arg, section, docs, open_docs, rows, data, returned,
                   dirs, disk0, open_out>>

\* mutant of CloseOut: dump catches the exception of a packet and goes on
\* with the next one
CloseOut_continue ==
    /\ pc = "close_out"
    /\ open_out' = open_out \ {out_filename(BASE_OUTPUT_DIR, data[i].section,
                                            data[i].subsection, CSV)}
    /\ err' = NoError
    /\ IF i < Len(data)
       THEN /\ i' = i + 1
            /\ pc' = "mkdir"
       ELSE /\ pc' = "done"
            /\ UNCHANGED i
    /\ UNCHANGED <<arg, section, docs, open_docs, rows, data, returned,
                   dirs, files, disk0>>

\* leaving the with block closes the file; dump goes on to the next packet
CloseOut ==
    /\ pc = "close_out"
    /\ open_out' = open_out \ {out_filename(BASE_OUTPUT_DIR, data[i].section,
                                            data[i].subsection, CSV)}
    /\ IF err # NoError
       THEN /\ pc' = "failed"
            /\ UNCHANGED i
       ELSE IF i < Len(data)
       THEN /\ i' = i + 1
            /\ pc' = "mkdir"
       ELSE /\ pc' = "done"
            /\ UNCHANGED i
    /\ UNCHANGED <<arg, section, docs, open_docs, rows, data, returned,
                   dirs, files, disk0, err>>

Next ==
    \/ NewParser
    \/ OpenDoc
    \/ ReadDoc
    \/ CloseDoc
    \/ NewWriter
    \/ EnsureDir
    \/ OpenOut
    \/ WriteRows
    \/ CloseOut

Spec == Init /\ [][Next]_vars

----------------------------------------------------------------------------
(* BaseParser.__init__ called with any section *)

Sections == SeqsUpTo({"s", "e", "c"}, MaxSection) \cup {SECURITY_SECTION}

InitValidate ==
    /\ pc = "new"
    /\ i = 1
    /\ arg \in Sections
    /\ section = NoSection
    /\ docs = Files(NoFile, NoFile, NoFile)
    /\ disk0 = EmptyDisk
    /\ open_docs = {}
    /\ rows = <<>>
    /\ data = <<>>
    /\ returned = FALSE
    /\ dirs = disk0.dirs
    /\ files = disk0.files
    /\ open_out = {}
    /\ err = NoError

\* BaseParser.__init__(section): self._validate_inputs(section), then
\* self.section = section
BaseParser_init ==
    /\ pc = "new"
    /\ IF _validate_inputs(arg) # NoError
       THEN /\ err' = _validate_inputs(arg)
            /\ pc' = "failed"
            /\ UNCHANGED section
       ELSE /\ section' = arg
            /\ pc' = "constructed"
            /\ UNCHANGED err
    /\ UNCHANGED <<i, arg, docs, open_docs, rows, data, returned,
                   dirs, files, disk0, open_out>>

NextValidate == BaseParser_init

SpecValidate == InitValidate /\ [][NextValidate]_vars

----------------------------------------------------------------------------
(* Reading a written file back: csv.reader and csv.DictReader *)

NoneVal == [none |-> TRUE]

\* csv.reader over the text from position p on: the records, each the
\* sequence of its fields.  state is "start" at the start of a field, "in"
\* inside an unquoted field, "quoted" inside quotes, "qq" after a quote
\* met inside quotes
RECURSIVE csv_reader(_, _, _, _, _)
csv_reader(text, p, state, field, record) ==
    IF p > Len(text)
    THEN IF state = "start" /\ record = <<>> THEN <<>>
         ELSE <<Append(record, field)>>
    ELSE LET c == text[p]
             eol == IF c = CR /\ p < Len(text) /\ text[p + 1] = LF
                    THEN p + 2 ELSE p + 1
         IN
         IF state = "quoted"
         THEN IF c = QUOTE
              THEN csv_reader(text, p + 1, "qq", field, record)
              ELSE csv_reader(text, p + 1, "quoted", Append(field, c), record)
         ELSE IF c = QUOTE /\ state = "qq"
         THEN csv_reader(text, p + 1, "quoted", Append(field, c), record)
         ELSE IF c = QUOTE /\ state = "start"
         THEN csv_reader(text, p + 1, "quoted", field, record)
         ELSE IF c = COMMA
         THEN csv_reader(text, p + 1, "start", <<>>, Append(record, field))
         ELSE IF c \in {CR, LF}
         THEN (IF state = "start" /\ record = <<>> THEN << <<>> >>
               ELSE <<Append(record, field)>>)
              \o csv_reader(text, eol, "start", <<>>, <<>>)
         ELSE csv_reader(text, p + 1, "in", Append(field, c), record)

\* csv.DictReader: the first record names the columns, empty records are
\* skipped, a record too short leaves its last columns None
DictReader(text) ==
    LET recs == csv_reader(text, 1, "start", <<>>, <<>>) IN
    IF recs = <<>> THEN <<>>
    ELSE LET names == recs[1]
             body == SelectSeq(Tail(recs), LAMBDA r : r # <<>>)
         IN [j \in 1..Len(body) |->
                [k \in Range(names) |->
                    LET q == CHOOSE q \in 1..Len(names) : names[q] = k IN
                    IF q <= Len(body[j]) THEN StrVal(body[j][q])
                    ELSE NoneVal]]

----------------------------------------------------------------------------
(* Vocabulary of the properties *)

\* the <ul> element routine n selects in its document
SelectedUl(n) ==
    docs[RoutineFile(n)].uls[FIELD_NAME_INDEX[Subsections[n]] + 1]
\* routine n has run its with block to the end without an exception
Parsed(n) == ~returned /\ pc = "close" /\ i = n /\ err = NoError

OutDir == <<"data", SECURITY_SECTION>>
OutFile(k) == <<"data", SECURITY_SECTION, Subsections[k], <<"c", "s", "v">> >>
\* the with block of _dump_to_csv has just run for packet k
AfterWrite(k) == returned /\ pc = "close_out" /\ i = k
KeysWithin(packet) ==
    \A j \in 1..Len(packet.data) :
        DOMAIN packet.data[j] \subseteq Range(packet.fieldnames)

TextOf(v) == IF DOMAIN v = {"int"} THEN str_int(v.int) ELSE v.str
\* the records a packet's file is to hold: the header, then a record per
\* row with the values in column order, empty where the row has no value
ExpectedRecords(packet) ==
    <<packet.fieldnames>> \o
    [j \in 1..Len(packet.data) |->
        [q \in 1..Len(packet.fieldnames) |->
            IF packet.fieldnames[q] \in DOMAIN packet.data[j]
            THEN TextOf(packet.data[j][packet.fieldnames[q]])
            ELSE <<>>]]
PhysicalLines(text) == Cardinality({p \in 1..Len(text) : text[p] = LF})
HasLineBreak(packet) ==
    \E j \in 1..Len(packet.data) : \E k \in DOMAIN packet.data[j] :
        \E p \in 1..Len(TextOf(packet.data[j][k])) :
            TextOf(packet.data[j][k])[p] = LF
NotCreated(f) ==
    IF f \in DOMAIN disk0.files
    THEN f \in DOMAIN files /\ files[f] = disk0.files[f]
    ELSE f \notin DOMAIN files

IsSpace(c) == c \in {" ", LF, CR}
Trim(text) ==
    LET keep == {p \in 1..Len(text) : ~IsSpace(text[p])} IN
    IF keep = {} THEN <<>>
    ELSE SubSeq(text, CHOOSE a \in keep : \A b \in keep : a <= b,
                      CHOOSE a \in keep : \A b \in keep : a >= b)
NoColon(line) == \A p \in 1..Len(line) : line[p] # COLON
NameOf(line) ==
    SubSeq(line, 1, (CHOOSE p \in 1..Len(line) :
                        line[p] = COLON /\ NoColon(SubSeq(line, 1, p - 1))) - 1)
AfterColon(line) == SubSeq(line, Len(NameOf(line)) + 2, Len(line))
\* the row the field-delimited variant is to build for one <p>
RecordRow(lines) ==
    [k \in {NameOf(lines[j]) : j \in 1..Len(lines)} |->
        LET last == CHOOSE j \in 1..Len(lines) :
                        /\ NameOf(lines[j]) = k
                        /\ \A q \in (j + 1)..Len(lines) : NameOf(lines[q]) # k
        IN StrVal(Trim(AfterColon(lines[last])))]
HasColonlessLine(ul) ==
    \E r \in 1..Len(ul.p) : \E j \in 1..Len(ul.p[r]) : NoColon(ul.p[r][j])
WithoutNonAscii(text) == SelectSeq(text, LAMBDA c : c \notin {"U+00E9"})

----------------------------------------------------------------------------
(* Properties *)

\* C1: _parse_recognized_machines returns exactly one row per <p> of the
\* selected list, in document order; the keys of a row are the field names
\* on the element's lines and each value is the trimmed text after the
\* first colon; no row is emitted more than once.
C1_OneRowPerRecord ==
    Parsed(2) =>
        /\ Len(rows) = Len(SelectedUl(2).p)
        /\ \A r \in 1..Len(rows) : rows[r] = RecordRow(SelectedUl(2).p[r])

C3_RowKeysWithinFieldnames ==
    \A k \in 1..Len(data) : KeysWithin(data[k])

\* C4: when a line of a record element has no colon, the recognized
\* machines routine ends with the malformed-field error (ValueError), it
\* returns no row list and run returns no packets.
C4_ColonlessLineRaises ==
    (/\ pc # "main"
     /\ docs[filename].exists
     /\ Len(docs[filename].uls) > 6
     /\ HasColonlessLine(docs[filename].uls[4])) =>
        /\ ~returned
        /\ Len(data) <= 1
        /\ pc \notin {"writer", "mkdir", "open_out", "write", "close_out",
                      "done"}
        /\ (i = 2 /\ pc \in {"close", "failed"}) => err = "ValueError"
        /\ pc = "failed" => (i = 2 /\ err = "ValueError")

\* C4 witness: the run has ended in the recognized machines routine on a
\* document whose second record line has no colon
C4_Witness ==
    /\ pc = "failed"
    /\ i = 2
    /\ err = "ValueError"
    /\ \E r \in 1..Len(SelectedUl(2).p) :
        /\ Len(SelectedUl(2).p[r]) = 2
        /\ ~NoColon(SelectedUl(2).p[r][1])
        /\ NoColon(SelectedUl(2).p[r][2])

\* C5: constructing a parser with any section other than 'security' raises
\* the invalid-configuration error before any file is opened or written.
C5_OnlyConfiguredSectionAccepted ==
    (pc \in {"constructed", "failed"} /\ arg # SECURITY_SECTION) =>
        /\ pc = "failed"
        /\ err = "ValueError"
        /\ section = NoSection
        /\ open_docs = {} /\ open_out = {}
        /\ dirs = disk0.dirs /\ files = disk0.files

C8_AbortOnFirstError ==
    returned =>
        /\ \A k \in (i + 1)..Len(data) : NotCreated(OutFile(k))
        /\ err # NoError => pc \in {"close_out", "failed"}
        /\ err = "OSError" => (dirs = disk0.dirs /\ files = disk0.files)
        /\ pc = "failed" =>
            /\ err # NoError
            /\ open_out = {}
            /\ \A k \in 1..(i - 1) :
                /\ OutFile(k) \in DOMAIN files
                /\ csv_reader(files[OutFile(k)], 1, "start", <<>>, <<>>)
                    = ExpectedRecords(data[k])

\* C8 witness: the third packet's file could not be opened after the first
\* two were written
C8_Witness ==
    /\ returned
    /\ pc = "failed"
    /\ i = 3
    /\ err = "IOError"
    /\ OutFile(2) \in DOMAIN files

\* C9: the four extractions complete, in the declared order, before the
\* writer creates anything: until run has returned its four packets no
\* output directory or file is created or modified.
C9_ExtractBeforeWrite ==
    /\ \A k \in 1..Len(data) : data[k].subsection = Subsections[k]
    /\ returned => Len(data) = 4
    /\ ~returned =>
        /\ dirs = disk0.dirs
        /\ files = disk0.files
        /\ open_out = {}
        /\ pc \notin {"writer", "mkdir", "open_out", "write", "close_out",
                      "done"}

\* C9 witness: the applications document is missing, the run has ended
\* after two extractions and the files of an earlier run are untouched
C9_Witness ==
    /\ pc = "failed"
    /\ ~returned
    /\ i = 3
    /\ err = "IOError"
    /\ disk0 = StaleDisk

\* C10: at most one input document is open at any time, it is the document
\* of the routine that is running, and none is open between routines or
\* once run has ended, by return or by exception.
C10_OneDocumentOpen ==
    /\ Cardinality(open_docs) <= 1
    /\ pc \in {"body", "close"} => open_docs = {RoutineFile(i)}
    /\ pc \notin {"body", "close"} => open_docs = {}

\* C10 witness: the positional lookup failed inside the with block of the
\* applications routine and the run has ended
C10_Witness ==
    /\ pc = "failed"
    /\ i = 3
    /\ err = "IndexError"
    /\ open_docs = {}

====
